---- MODULE Spec2Model ----
(***************************************************************************)
(* Model of soundclash/preprocessing/base.py: the two functions that turn  *)
(* detected silences into ffmpeg split commands,                           *)
(*   generate_split_commands            (one file, min_duration)           *)
(*   generate_split_commands_multi_file (several files, known durations).  *)
(* Times are floats in the code; here they are integers on a grid, so all  *)
(* arithmetic is exact.  A command string is modelled by the values that   *)
(* are formatted into it: the input file, -ss, -to and the chunk number.   *)
(* file_durations[f] is the value get_file_duration returned for file f.   *)
(***************************************************************************)
EXTENDS Integers, Sequences, FiniteSets

VARIABLES fn, file_durations, silences, known_durations, min_duration,
          pc, commands, chunk_counter, chunk_start, silence_index,
          i, remaining_duration, current_file_index, current_file_position,
          walk, stderr, line_index, detected

inputs == <<fn, file_durations, silences, known_durations, min_duration>>
(* detect_silences: the lines of ffmpeg's stderr, the loop position and the *)
(* list being built (the local the code calls silences)                    *)
parse == <<stderr, line_index, detected>>

vars == <<fn, file_durations, silences, known_durations, min_duration,
          pc, commands, chunk_counter, chunk_start, silence_index,
          i, remaining_duration, current_file_index, current_file_position,
          walk, stderr, line_index, detected>>

(* ---- bounds of the explored inputs ---- *)
MaxTime == 3
MaxSil == 2
MaxFiles == 1
MaxTargets == 1
MaxCommands == 6
MaxLines == 3

(* ---- helpers ---- *)
Min(a, b) == IF a <= b THEN a ELSE b

Least(S) == CHOOSE x \in S : \A y \in S : x <= y

(* a silence is a tuple <<silence_start, silence_end>>; silencedetect only *)
(* reports silences of at least min_silence_len, so start < end            *)
Intervals(d) == {iv \in (0..d) \X (0..d) : iv[1] < iv[2]}

(* time-ordered, non-overlapping *)
SortedDisjoint(s) == \A k \in 1..(Len(s) - 1) : s[k][2] <= s[k + 1][1]

SilenceLists(d) ==
    {s \in UNION {[1..n -> Intervals(d)] : n \in 0..MaxSil} : SortedDisjoint(s)}

Durations == 0..MaxTime

Targets == (-1)..MaxTime

MinDurations == 0..MaxTime

TargetLists == UNION {[1..n -> Targets] : n \in 0..MaxTargets}

(* the scenario of the repository's tests, all values in seconds *)
ScenarioSilences == << <<30, 35>>, <<90, 95>> >>

ScenarioFileSilences == << ScenarioSilences, << <<50, 55>> >> >>

ScenarioDurations == <<180, 120>>

ScenarioTargets == <<60, 150, 70>>

DefaultMinDuration == 60

(* ---- generate_split_commands ---- *)

(* the test with chunk_start forgotten *)
LongEnough_EndOnly(start, end, min) == end >= min

(* the test with min_duration ignored *)
LongEnough_Always(start, end, min) == end - start >= 0

(* the test of lines 111 and 120 *)
LongEnough(start, end, min) == end - start >= min

(* the values formatted into one command string *)
Command(file, start, end, counter) ==
    [file |-> file, start |-> start, end |-> end, chunk |-> counter]

(* the next chunk started where the silence starts *)
AfterSilence_Start(silence) == silence[1]

(* line 117: the next chunk starts where the silence ends *)
AfterSilence(silence) == silence[2]

(* one iteration of the loop over the silences, lines 110-117 *)
SplitAtSilence ==
    /\ pc = "silences"
    /\ silence_index < Len(silences[1])
    /\ LET silence == silences[1][silence_index + 1]
           emit == LongEnough(chunk_start, silence[1], min_duration)
       IN /\ commands' = IF emit
                           THEN Append(commands, Command(1, chunk_start, silence[1], chunk_counter))
                           ELSE commands
          /\ chunk_counter' = IF emit THEN chunk_counter + 1 ELSE chunk_counter
          /\ chunk_start' = AfterSilence(silence)
    /\ silence_index' = silence_index + 1
    /\ UNCHANGED <<inputs, parse, pc, i, remaining_duration, current_file_index,
                   current_file_position, walk>>

(* the last segment and the return, lines 119-125 *)
SplitLast ==
    /\ pc = "silences"
    /\ silence_index = Len(silences[1])
    /\ commands' = IF LongEnough(chunk_start, file_durations[1], min_duration)
                     THEN Append(commands, Command(1, chunk_start, file_durations[1], chunk_counter))
                     ELSE commands
    /\ pc' = "done"
    /\ UNCHANGED <<inputs, parse, chunk_counter, chunk_start, silence_index, i,
                   remaining_duration, current_file_index, current_file_position, walk>>

(* ---- generate_split_commands_multi_file ---- *)

(* the chunk always runs to the end of the file *)
ChunkEnd_WholeFile(file_duration, start, remaining) == file_duration

(* the chunk is not cut at the end of the file *)
ChunkEnd_NoFileEnd(file_duration, start, remaining) == start + remaining

(* line 250 *)
ChunkEnd(file_duration, start, remaining) == Min(file_duration, start + remaining)

(* the adjustment moving chunk_end to the end of the silence *)
AdjustChunkEnd_ToSilenceEnd(chunk_end, file_silences) ==
    LET hits == {k \in 1..Len(file_silences) :
                    /\ file_silences[k][1] <= chunk_end
                    /\ chunk_end < file_silences[k][2]}
    IN IF hits = {} THEN chunk_end ELSE file_silences[Least(hits)][2]

(* lines 253-256: the first silence, in list order, that holds chunk_end *)
AdjustChunkEnd(chunk_end, file_silences) ==
    LET hits == {k \in 1..Len(file_silences) :
                    /\ file_silences[k][1] <= chunk_end
                    /\ chunk_end < file_silences[k][2]}
    IN IF hits = {} THEN chunk_end ELSE file_silences[Least(hits)][1]

(* line 240: the for loop takes the next known duration, line 242 *)
ForNext ==
    /\ pc = "for"
    /\ i < Len(known_durations)
    /\ remaining_duration' = known_durations[i + 1]
    /\ pc' = "while"
    /\ UNCHANGED <<inputs, parse, commands, chunk_counter, chunk_start, silence_index, i,
                   current_file_index, current_file_position, walk>>

(* the while loop numbering the chunks per command, as the single-file   *)
(* function does                                                         *)
WhileBody_CountPerCommand ==
    /\ pc = "while"
    /\ remaining_duration > 0
    /\ current_file_index < Len(file_durations)
    /\ Len(commands) < MaxCommands
    /\ LET file_duration == file_durations[current_file_index + 1]
           file_silences == silences[current_file_index + 1]
           start == current_file_position
           computed == ChunkEnd(file_duration, start, remaining_duration)
           chunk_end == AdjustChunkEnd(computed, file_silences)
           chunk_duration == chunk_end - start
           position == current_file_position + chunk_duration
       IN /\ commands' = Append(commands,
                Command(current_file_index + 1, start, chunk_end, chunk_counter))
          /\ walk' = Append(walk, [target |-> i, chunk_end |-> computed])
          /\ remaining_duration' = remaining_duration - chunk_duration
          /\ IF position >= file_duration
               THEN /\ current_file_index' = current_file_index + 1
                    /\ current_file_position' = 0
               ELSE /\ current_file_index' = current_file_index
                    /\ current_file_position' = position
    /\ chunk_counter' = chunk_counter + 1
    /\ UNCHANGED <<inputs, parse, pc, chunk_start, silence_index, i>>

(* one iteration of the while loop, lines 244-269.  walk records, for each *)
(* command, the target being processed and chunk_end before the adjustment *)
(* (history only, never read by the walk).  The code puts no limit on the  *)
(* number of commands; MaxCommands bounds the exploration.                 *)
WhileBody ==
    /\ pc = "while"
    /\ remaining_duration > 0
    /\ current_file_index < Len(file_durations)
    /\ Len(commands) < MaxCommands
    /\ LET file_duration == file_durations[current_file_index + 1]
           file_silences == silences[current_file_index + 1]
           start == current_file_position
           computed == ChunkEnd(file_duration, start, remaining_duration)
           chunk_end == AdjustChunkEnd(computed, file_silences)
           chunk_duration == chunk_end - start
           position == current_file_position + chunk_duration
       IN /\ commands' = Append(commands,
                Command(current_file_index + 1, start, chunk_end, chunk_counter))
          /\ walk' = Append(walk, [target |-> i, chunk_end |-> computed])
          /\ remaining_duration' = remaining_duration - chunk_duration
          /\ IF position >= file_duration
               THEN /\ current_file_index' = current_file_index + 1
                    /\ current_file_position' = 0
               ELSE /\ current_file_index' = current_file_index
                    /\ current_file_position' = position
    /\ UNCHANGED <<inputs, parse, pc, chunk_counter, chunk_start, silence_index, i>>

(* the while loop ends, line 271, and the for loop moves on *)
WhileExit ==
    /\ pc = "while"
    /\ ~(remaining_duration > 0 /\ current_file_index < Len(file_durations))
    /\ chunk_counter' = chunk_counter + 1
    /\ i' = i + 1
    /\ pc' = "for"
    /\ UNCHANGED <<inputs, parse, commands, chunk_start, silence_index, remaining_duration,
                   current_file_index, current_file_position, walk>>

(* line 273 *)
Return ==
    /\ pc = "for"
    /\ i = Len(known_durations)
    /\ pc' = "done"
    /\ UNCHANGED <<inputs, parse, commands, chunk_counter, chunk_start, silence_index, i,
                   remaining_duration, current_file_index, current_file_position, walk>>

(* ---- the calls explored ---- *)

ValidInput ==
    /\ Len(silences) = Len(file_durations)
    /\ \A f \in 1..Len(file_durations) :
          /\ SortedDisjoint(silences[f])
          /\ \A k \in 1..Len(silences[f]) :
                /\ 0 <= silences[f][k][1]
                /\ silences[f][k][1] < silences[f][k][2]
                /\ silences[f][k][2] <= file_durations[f]

Locals ==
    /\ commands = <<>>
    /\ chunk_counter = 0
    /\ chunk_start = 0
    /\ silence_index = 0
    /\ i = 0
    /\ remaining_duration = 0
    /\ current_file_index = 0
    /\ current_file_position = 0
    /\ walk = <<>>

InitSingle ==
    /\ fn = "generate_split_commands"
    /\ \/ /\ file_durations \in [1..1 -> Durations]
          /\ silences \in [1..1 -> SilenceLists(MaxTime)]
          /\ min_duration \in MinDurations
       \/ /\ file_durations = <<ScenarioDurations[1]>>
          /\ silences = <<ScenarioSilences>>
          /\ min_duration = DefaultMinDuration
    /\ known_durations = <<>>
    /\ pc = "silences"

InitMulti ==
    /\ fn = "generate_split_commands_multi_file"
    /\ \/ /\ \E n \in 0..MaxFiles :
                /\ file_durations \in [1..n -> Durations]
                /\ silences \in [1..n -> SilenceLists(MaxTime)]
          /\ known_durations \in TargetLists
       \/ /\ file_durations = ScenarioDurations
          /\ silences = ScenarioFileSilences
          /\ known_durations = ScenarioTargets
    /\ min_duration = 0
    /\ pc = "for"

(* no call of detect_silences is in progress *)
ParseIdle ==
    /\ stderr = <<>>
    /\ line_index = 0
    /\ detected = <<>>

Init ==
    /\ InitSingle \/ InitMulti
    /\ ValidInput
    /\ Locals
    /\ ParseIdle

Next ==
    \/ SplitAtSilence
    \/ SplitLast
    \/ ForNext
    \/ WhileBody
    \/ WhileExit
    \/ Return

Spec == Init /\ [][Next]_vars

(* ---- the calls as the program makes them: durations from ffprobe ---- *)

(* line 78: ffprobe prints the length in seconds; the function returns it *)
(* times 1000                                                             *)
GetFileDuration(seconds) == seconds * 1000

(* the lengths, in seconds, that ffprobe prints for the files explored *)
FileSeconds == Durations \cup {ScenarioDurations[f] : f \in 1..Len(ScenarioDurations)}

(* lines 102 and 246: file_duration is get_file_duration of the file *)
ProbedDurations(seconds) == [f \in 1..Len(seconds) |-> GetFileDuration(seconds[f])]

(* the silences of each file lie within its length in seconds *)
SilencesWithin(seconds) ==
    /\ Len(silences) = Len(seconds)
    /\ \A f \in 1..Len(seconds) :
          /\ SortedDisjoint(silences[f])
          /\ \A k \in 1..Len(silences[f]) :
                /\ 0 <= silences[f][k][1]
                /\ silences[f][k][1] < silences[f][k][2]
                /\ silences[f][k][2] <= seconds[f]

InitUnitsSingle ==
    /\ fn = "generate_split_commands"
    /\ \/ /\ \E seconds \in [1..1 -> Durations] :
                /\ file_durations = ProbedDurations(seconds)
                /\ silences \in [1..1 -> SilenceLists(MaxTime)]
                /\ SilencesWithin(seconds)
          /\ min_duration \in MinDurations
       \/ /\ file_durations = ProbedDurations(<<ScenarioDurations[1]>>)
          /\ silences = <<ScenarioSilences>>
          /\ min_duration = DefaultMinDuration
    /\ known_durations = <<>>
    /\ pc = "silences"

InitUnitsMulti ==
    /\ fn = "generate_split_commands_multi_file"
    /\ \/ /\ \E n \in 0..MaxFiles :
                \E seconds \in [1..n -> Durations] :
                    /\ file_durations = ProbedDurations(seconds)
                    /\ silences \in [1..n -> SilenceLists(MaxTime)]
                    /\ SilencesWithin(seconds)
          /\ known_durations \in TargetLists
       \/ /\ file_durations = ProbedDurations(ScenarioDurations)
          /\ silences = ScenarioFileSilences
          /\ known_durations = ScenarioTargets
    /\ min_duration = 0
    /\ pc = "for"

InitUnits ==
    /\ InitUnitsSingle \/ InitUnitsMulti
    /\ Locals
    /\ ParseIdle

SpecUnits == InitUnits /\ [][Next]_vars

(* ---- detect_silences ---- *)

(* line 54: the end of a silence whose silence_end line has not been seen *)
None == -1

(* a line of stderr: what it mentions and the time printed after it *)
Lines ==
    [kind : {"silence_start", "silence_end"}, time : 0..MaxTime]
        \cup {[kind |-> "other", time |-> 0]}

(* lines 53 and 56: the number after 'silence_start: ' or 'silence_end: ' *)
ParseTime(line) == line.time

(* line 57: the last interval is still open *)
Pending(list) == list # <<>> /\ list[Len(list)][2] = None

(* one iteration of the loop over the lines, lines 51-58 *)
ParseLine ==
    /\ pc = "lines"
    /\ line_index < Len(stderr)
    /\ LET line == stderr[line_index + 1]
       IN detected' =
            IF line.kind = "silence_start"
              THEN Append(detected, <<ParseTime(line), None>>)
            ELSE IF line.kind = "silence_end" /\ Pending(detected)
              THEN [detected EXCEPT ![Len(detected)] =
                        <<detected[Len(detected)][1], ParseTime(line)>>]
            ELSE detected
    /\ line_index' = line_index + 1
    /\ UNCHANGED <<inputs, pc, stderr, commands, chunk_counter, chunk_start,
                   silence_index, i, remaining_duration, current_file_index,
                   current_file_position, walk>>

(* line 60 *)
DetectReturn ==
    /\ pc = "lines"
    /\ line_index = Len(stderr)
    /\ pc' = "done"
    /\ UNCHANGED <<inputs, parse, commands, chunk_counter, chunk_start,
                   silence_index, i, remaining_duration, current_file_index,
                   current_file_position, walk>>

InitDetect ==
    /\ fn = "detect_silences"
    /\ stderr \in UNION {[1..n -> Lines] : n \in 0..MaxLines}
    /\ line_index = 0
    /\ detected = <<>>
    /\ pc = "lines"
    /\ file_durations = <<>>
    /\ silences = <<>>
    /\ known_durations = <<>>
    /\ min_duration = 0
    /\ Locals

NextDetect ==
    \/ ParseLine
    \/ DetectReturn

SpecDetect == InitDetect /\ [][NextDetect]_vars

(* ---- properties ---- *)

Single == fn = "generate_split_commands"

Multi == fn = "generate_split_commands_multi_file"

Emitted == 1..Len(commands)

Max(a, b) == IF a >= b THEN a ELSE b

(* [start, end) of a command meets the open silence (ss, se) *)
Covers(cmd, silence) == Max(cmd.start, silence[1]) < Min(cmd.end, silence[2])

RECURSIVE SumForChunk(_, _)
(* the sum of end - start over the first n commands that carry chunk number c *)
SumForChunk(c, n) ==
    IF n = 0 THEN 0
    ELSE SumForChunk(c, n - 1)
         + (IF commands[n].chunk = c THEN commands[n].end - commands[n].start ELSE 0)

ChunkNumbers == [k \in Emitted |-> commands[k].chunk]

SingleScenario ==
    /\ Single
    /\ file_durations = <<180>>
    /\ silences = << << <<30, 35>>, <<90, 95>> >> >>
    /\ min_duration = 60

MultiScenario ==
    /\ Multi
    /\ file_durations = <<180, 120>>
    /\ silences = << << <<30, 35>>, <<90, 95>> >>, << <<50, 55>> >> >>
    /\ known_durations = <<60, 150, 70>>

(* C1: neither function ever emits a command with end <= start: every      *)
(* emitted command has start < end.                                        *)
C1_NoDegenerateCommand ==
    \A k \in Emitted : commands[k].start < commands[k].end

C3_SnapToSilenceStart ==
    Multi =>
        \A k \in Emitted :
            LET file_silences == silences[commands[k].file]
            IN \A n \in 1..Len(file_silences) :
                  /\ (/\ file_silences[n][1] <= walk[k].chunk_end
                      /\ walk[k].chunk_end < file_silences[n][2])
                        => commands[k].end = file_silences[n][1]
                  /\ ~(/\ file_silences[n][1] < commands[k].end
                       /\ commands[k].end < file_silences[n][2])

(* the computed chunk_end fell strictly inside a silence and was moved *)
C3_Witness ==
    /\ Multi
    /\ \E k \in Emitted :
          \E n \in 1..Len(silences[commands[k].file]) :
              LET silence == silences[commands[k].file][n]
              IN /\ silence[1] < walk[k].chunk_end
                 /\ walk[k].chunk_end < silence[2]
                 /\ commands[k].end = silence[1]

(* C4: the commands of generate_split_commands are in order of start and   *)
(* do not overlap; each starts at 0 or at the end of a silence and ends at *)
(* the start of the next silence or at the file duration; the k-th command *)
(* is chunk k, counting from 0.                                            *)
C4_OrderedDisjointNumbered ==
    Single =>
        /\ \A k \in Emitted :
              /\ commands[k].chunk = k - 1
              /\ \E n \in 1..(Len(silences[1]) + 1) :
                    /\ commands[k].start =
                          IF n = 1 THEN 0 ELSE silences[1][n - 1][2]
                    /\ commands[k].end =
                          IF n = Len(silences[1]) + 1 THEN file_durations[1]
                          ELSE silences[1][n][1]
        /\ \A k \in Emitted : \A m \in Emitted :
              k < m => /\ commands[k].start <= commands[m].start
                       /\ commands[k].end <= commands[m].start

(* a finished call that cut two or more chunks of positive length *)
C4_Witness ==
    /\ Single
    /\ pc = "done"
    /\ Len(commands) >= 2
    /\ Len(silences[1]) >= 1
    /\ \A k \in Emitted : commands[k].start < commands[k].end

C9_NoSilentAudio ==
    Multi =>
        \A k \in Emitted :
            LET file_silences == silences[commands[k].file]
            IN \A n \in 1..Len(file_silences) :
                  /\ ~Covers(commands[k], file_silences[n])
                  /\ (/\ commands[k].end = file_silences[n][1]
                      /\ k + 1 \in Emitted
                      /\ commands[k + 1].file = commands[k].file)
                        => commands[k + 1].start = file_silences[n][2]

(* C10: a file of duration 0 is skipped by the multi-file walk: no command *)
(* names it, the file index moves past it, and the call returns.           *)
C10_ZeroDurationSkipped ==
    Multi =>
        \A k \in Emitted : file_durations[commands[k].file] # 0

(* the length in seconds of file f, as ffprobe printed it *)
LengthInSeconds(f) ==
    CHOOSE seconds \in FileSeconds : GetFileDuration(seconds) = file_durations[f]

(* C11: durations, silences and known durations are compared in seconds:   *)
(* no command ends after its file's length in seconds, and the multi-file  *)
(* walk moves to the next file as soon as the position reaches the file's  *)
(* length in seconds, so a position inside a file is below that length.    *)
C11_OneUnit ==
    /\ \A k \in Emitted : commands[k].end <= LengthInSeconds(commands[k].file)
    /\ (/\ Multi
        /\ current_file_index < Len(file_durations)
        /\ current_file_position > 0)
          => current_file_position < LengthInSeconds(current_file_index + 1)

(* C12: the multi-file walk terminates because every iteration of the     *)
(* while loop (every step that appends a command) either strictly lowers  *)
(* remaining_duration or moves to the next file.                          *)
C12_EachIterationProgresses ==
    [][(Multi /\ pc = "while" /\ Len(commands') = Len(commands) + 1)
         => \/ remaining_duration' < remaining_duration
            \/ current_file_index' > current_file_index]_vars

RECURSIVE StartTimes(_)
(* the times of the silence_start lines, in the order of the lines *)
StartTimes(lines) ==
    IF lines = <<>> THEN <<>>
    ELSE IF Head(lines).kind = "silence_start"
      THEN <<Head(lines).time>> \o StartTimes(Tail(lines))
    ELSE StartTimes(Tail(lines))

(* C13: for every sequence of silence_start and silence_end lines, every  *)
(* interval detect_silences returns has an end (not None), and the        *)
(* intervals are in the order of their silence_start lines.               *)
C13_IntervalsComplete ==
    (fn = "detect_silences" /\ pc = "done") =>
        /\ \A k \in 1..Len(detected) : detected[k][2] # None
        /\ [k \in 1..Len(detected) |-> detected[k][1]] = StartTimes(stderr)

====
